---------------------------- MODULE Spec2Model ----------------------------
(***************************************************************************)
(* QCCTV_LocalCamera: the camera side of the QCCTV streaming protocol.     *)
(*                                                                         *)
(* The object lives on one Qt event loop.  Every slot, timer callback and  *)
(* public call runs to completion before the next one starts, so each is   *)
(* one action here.  The member functions are operators on a record that   *)
(* holds the object's fields (Self); an action runs one handler on the     *)
(* current record and commits the result.                                  *)
(*                                                                         *)
(* Bytes are 0..255.  A QString is a sequence of UTF-16 code units.  The   *)
(* compressed image and the end marker are opaque tokens above the byte    *)
(* range.                                                                  *)
(***************************************************************************)
EXTENDS Integers, Sequences, FiniteSets, TLC

(* ------------------------------ bounds --------------------------------- *)

\* Viewer connections that can exist at the same time.
MaxSockets == 2
\* Frames a socket's write buffer may hold before the model stops ticking.
MaxPending == 2
\* Longest inbound read, in bytes.
MaxRead == 6
\* Ticks whose frames the history of frames records.
MaxFrames == 2

(* ----------------- values of QCCTV.h (not among the sources) ----------- *)

QCCTV_MIN_FPS == 1
QCCTV_MAX_FPS == 60
QCCTV_FLASHLIGHT_OFF == 0
QCCTV_FLASHLIGHT_ON == 1
QCCTV_FORCE_FOCUS == 1
QCCTV_CAMSTATUS_DEFAULT == 0
QCCTV_CAMSTATUS_VIDEO_FAILURE == 1
QCCTV_CAMSTATUS_LIGHT_FAILURE == 2
\* The end-of-data marker, an opaque token.
QCCTV_EOD == 999

\* "nearest valid boundary value"
QCCTV_GET_VALID_FPS(fps) ==
    IF fps < QCCTV_MIN_FPS THEN QCCTV_MIN_FPS
    ELSE IF fps > QCCTV_MAX_FPS THEN QCCTV_MAX_FPS
    ELSE fps

\* The status flags a QCCTV_CameraStatus argument can name.
StatusFlags == {QCCTV_CAMSTATUS_VIDEO_FAILURE, QCCTV_CAMSTATUS_LIGHT_FAILURE}

(* ------------------------------ inputs --------------------------------- *)

SocketIds == 1..MaxSockets

\* "Unknown Camera", the name the constructor sets.
UnknownCamera == <<85, 110, 107, 110, 111, 119, 110, 32, 67, 97, 109, 101, 114, 97>>
\* "Cam1"
Cam1 == <<67, 97, 109, 49>>
\* "Cafe" with e acute (U+00E9): four UTF-16 code units, five bytes as UTF-8.
Cafe == <<67, 97, 102, 233>>
NameInputs == {UnknownCamera, Cam1, Cafe}

\* Images: 0 is the "NO CAMERA IMAGE" placeholder, NullImage a null QImage.
NullImage == -1
DefaultImage == 0
ImageInputs == {NullImage, 1}

\* Arguments of setFPS: below, inside and above the valid range.
FpsInputs == {-5, 0, 15, 30, 61, 100}
\* QCCTV_DEFAULT_FPS is set in QCCTV.h; the constructor clamps whatever it is.
DefaultFpsCandidates == {15, 30}
\* What an uninitialised int member may hold when the constructor runs.
UninitInts == {0, 15}

\* Bytes a viewer may send: as frame rate, as light status, as focus request.
FpsBytes == {0, 30, 200}
LightBytes == {0, 1, 200}
FocusBytes == {0, 1}
Commands == {<<a, b, c>> : a \in FpsBytes, b \in LightBytes, c \in FocusBytes}
SampleCmds == {<<30, 1, 1>>, <<0, 0, 1>>}
\* One inbound read: a command, a cut command, or a command with the start
\* of further ones behind it.
Reads ==
    Commands
    \cup {SubSeq(c, 1, n) : c \in SampleCmds, n \in 0..2}
    \cup {c \o SubSeq(c \o c, 1, k) : c \in SampleCmds, k \in 1..(MaxRead - 3)}

\* Reads of a running camera: a cut command, a command of bytes outside
\* every range that asks for focus, and a well-formed one.
LiveReads == {<<30, 1>>, <<0, 200, 1>>, <<30, 1, 0>>}

(* ------------------------------ helpers -------------------------------- *)

RECURSIVE BitAnd(_, _)
BitAnd(a, b) ==
    IF a = 0 \/ b = 0 THEN 0
    ELSE (a % 2) * (b % 2) + 2 * BitAnd(a \div 2, b \div 2)

RECURSIVE BitOr(_, _)
BitOr(a, b) ==
    IF a = 0 THEN b
    ELSE IF b = 0 THEN a
    ELSE (IF a % 2 = 1 \/ b % 2 = 1 THEN 1 ELSE 0) + 2 * BitOr(a \div 2, b \div 2)

RECURSIVE BitXor(_, _)
BitXor(a, b) ==
    IF a = 0 THEN b
    ELSE IF b = 0 THEN a
    ELSE ((a + b) % 2) + 2 * BitXor(a \div 2, b \div 2)

\* int -> char, kept as the byte 0..255 (QByteArray::append (char)).
ToByte(v) == v % 256

\* A received byte read through data.at(i), a char: sign-extended where char
\* is signed, zero-extended where it is unsigned.
CharToInt(b, charSigned) == IF charSigned /\ b >= 128 THEN b - 256 ELSE b

\* QString::toUtf8 of one UTF-16 code unit (no surrogates in the inputs).
Utf8Unit(c) ==
    IF c < 128 THEN <<c>>
    ELSE IF c < 2048 THEN <<192 + (c \div 64), 128 + (c % 64)>>
    ELSE <<224 + (c \div 4096), 128 + ((c \div 64) % 64), 128 + (c % 64)>>

RECURSIVE Utf8(_)
Utf8(str) == IF str = <<>> THEN <<>> ELSE Utf8Unit(Head(str)) \o Utf8(Tail(str))

\* QImage::save (&buffer, QCCTV_IMAGE_FORMAT, 50): the compressed image, opaque.
ImageBytes(img) == <<256 + img>>

RECURSIVE SeqToSet(_)
SeqToSet(s) == IF s = <<>> THEN {} ELSE {Head(s)} \cup SeqToSet(Tail(s))

\* QList::indexOf: the first index (from 1 here), 0 when absent.
RECURSIVE IndexOfFrom(_, _, _)
IndexOfFrom(s, x, i) ==
    IF i > Len(s) THEN 0
    ELSE IF s[i] = x THEN i
    ELSE IndexOfFrom(s, x, i + 1)
IndexOf(s, x) == IndexOfFrom(s, x, 1)

\* QList::removeAt: out of range does nothing.
RemoveAt(s, i) ==
    IF i < 1 \/ i > Len(s) THEN s
    ELSE SubSeq(s, 1, i - 1) \o SubSeq(s, i + 1, Len(s))

(* ------------------------------- state --------------------------------- *)

VARIABLES
    m_fps,              \* int
    m_name,             \* QString
    m_cameraStatus,     \* int, the status flags
    m_flashlightStatus, \* the stored light status
    m_camera,           \* FALSE: NULL, TRUE: a camera is attached
    m_image,            \* the current image
    m_dataStream,       \* QByteArray, the outbound buffer
    m_sockets,          \* QList<QTcpSocket*>, the connection set
    camActive,          \* m_camera->status() == QCamera::ActiveStatus
    flashReady,         \* m_camera->exposure()->isFlashReady()
    pending,            \* m_server's pending connections, oldest first
    sockbuf,            \* per socket: frames written and not yet drained
    disconnectedSlots,  \* sockets whose disconnected() is connected
    readyReadSlots,     \* sockets whose readyRead() is connected
    updateTimer,        \* interval of the update() single shot armed last
    broadcastTimer,     \* interval of the broadcastInfo() single shot armed last
    updateShots,        \* update() single shots armed and not yet fired
    broadcastShots,     \* broadcastInfo() single shots armed and not yet fired
    emitted,            \* signals emitted by the last handler, in order
    calls,              \* focus and flash calls made by the last handler
    written,            \* socket writes and datagrams of the last handler
    lastOp,             \* the last handler and its arguments
    frameSeq,           \* history: frames encoded by the recorded ticks
    sent                \* history: per socket, the frames written to it

vars == <<m_fps, m_name, m_cameraStatus, m_flashlightStatus, m_camera, m_image,
          m_dataStream, m_sockets, camActive, flashReady, pending, sockbuf,
          disconnectedSlots, readyReadSlots, updateTimer, broadcastTimer,
          updateShots, broadcastShots, emitted, calls, written, lastOp,
          frameSeq, sent>>

\* The object as the next handler finds it: the fields, and empty logs.
Self ==
    [m_fps |-> m_fps, m_name |-> m_name, m_cameraStatus |-> m_cameraStatus,
     m_flashlightStatus |-> m_flashlightStatus, m_camera |-> m_camera,
     m_image |-> m_image, m_dataStream |-> m_dataStream, m_sockets |-> m_sockets,
     camActive |-> camActive, flashReady |-> flashReady, pending |-> pending,
     sockbuf |-> sockbuf, disconnectedSlots |-> disconnectedSlots,
     readyReadSlots |-> readyReadSlots, updateTimer |-> updateTimer,
     broadcastTimer |-> broadcastTimer, updateShots |-> updateShots,
     broadcastShots |-> broadcastShots,
     emitted |-> <<>>, calls |-> <<>>, written |-> <<>>]

\* The handler `op` has run and left the object as `o`.
Run(o, op) ==
    /\ m_fps' = o.m_fps
    /\ m_name' = o.m_name
    /\ m_cameraStatus' = o.m_cameraStatus
    /\ m_flashlightStatus' = o.m_flashlightStatus
    /\ m_camera' = o.m_camera
    /\ m_image' = o.m_image
    /\ m_dataStream' = o.m_dataStream
    /\ m_sockets' = o.m_sockets
    /\ camActive' = o.camActive
    /\ flashReady' = o.flashReady
    /\ pending' = o.pending
    /\ sockbuf' = o.sockbuf
    /\ disconnectedSlots' = o.disconnectedSlots
    /\ readyReadSlots' = o.readyReadSlots
    /\ updateTimer' = o.updateTimer
    /\ broadcastTimer' = o.broadcastTimer
    /\ updateShots' = o.updateShots
    /\ broadcastShots' = o.broadcastShots
    /\ emitted' = o.emitted
    /\ calls' = o.calls
    /\ written' = o.written
    /\ lastOp' = op

\* The same, with nothing added to the history of frames.
Commit(o, op) ==
    /\ Run(o, op)
    /\ UNCHANGED <<frameSeq, sent>>

Emit(o, signal) == [o EXCEPT !.emitted = Append(@, signal)]
Call(o, fn) == [o EXCEPT !.calls = Append(@, fn)]

(* ------------------------------ getters -------------------------------- *)

fps(o) == o.m_fps
lightStatus(o) == o.m_flashlightStatus
flashlightOn(o) == lightStatus(o) = QCCTV_FLASHLIGHT_ON
cameraName(o) == o.m_name
currentImage(o) == o.m_image
cameraStatus(o) == o.m_cameraStatus
flashlightAvailable(o) == IF o.m_camera THEN o.flashReady ELSE FALSE

(* ------------------------------ mutators ------------------------------- *)

focusCamera(o) ==
    LET o1 == Call(o, "focusCamera") IN
    IF o1.m_camera
    THEN Emit(Call(o1, "searchAndLock"), "focusStatusChanged")
    ELSE o1

\* Mutant: the argument is stored as given.
setFPS_raw(o, newFps) ==
    IF o.m_fps # newFps
    THEN Emit([o EXCEPT !.m_fps = newFps], "fpsChanged")
    ELSE o

setFPS(o, newFps) ==
    IF o.m_fps # QCCTV_GET_VALID_FPS(newFps)
    THEN Emit([o EXCEPT !.m_fps = QCCTV_GET_VALID_FPS(newFps)], "fpsChanged")
    ELSE o

setName(o, name) ==
    IF o.m_name # name
    THEN Emit([o EXCEPT !.m_name = name], "cameraNameChanged")
    ELSE o

setCamera(o, camera) ==
    IF camera THEN [o EXCEPT !.m_camera = TRUE] ELSE o

changeImage(o, image) ==
    IF image # NullImage
    THEN Emit([o EXCEPT !.m_image = image], "imageChanged")
    ELSE o

\* Mutant: the flag is set and signalled without the test.
addStatusFlag_always(o, status) ==
    Emit([o EXCEPT !.m_cameraStatus = BitOr(@, status)], "cameraStatusChanged")

addStatusFlag(o, status) ==
    IF BitAnd(o.m_cameraStatus, status) = 0
    THEN Emit([o EXCEPT !.m_cameraStatus = BitOr(@, status)], "cameraStatusChanged")
    ELSE o

setCameraStatus(o, status) ==
    Emit([o EXCEPT !.m_cameraStatus = status], "cameraStatusChanged")

removeStatusFlag(o, status) ==
    IF BitAnd(o.m_cameraStatus, status) # 0
    THEN Emit([o EXCEPT !.m_cameraStatus = BitXor(@, status)], "cameraStatusChanged")
    ELSE o

setFlashlightStatus(o, status) ==
    IF o.m_flashlightStatus # status
    THEN LET o1 == [o EXCEPT !.m_flashlightStatus = status] IN
         IF ~o1.m_camera THEN o1
         ELSE IF ~flashlightAvailable(o1) THEN o1
         ELSE LET o2 == IF flashlightOn(o1)
                        THEN focusCamera(Call(o1, "setFlashMode(FlashVideoLight)"))
                        ELSE Call(o1, "setFlashMode(FlashOff)")
              IN  Emit(o2, "lightStatusChanged")
    ELSE o

turnOnFlashlight(o) == setFlashlightStatus(o, QCCTV_FLASHLIGHT_ON)
turnOffFlashlight(o) == setFlashlightStatus(o, QCCTV_FLASHLIGHT_OFF)

(* --------------------------- the stream path --------------------------- *)

\* m_broadcastSocket in the write log; the sockets of viewers are 1, 2, ...
BroadcastSocket == 0
\* A null sender().
NullSocket == -1
\* Interval of the two single shots the constructor arms.
StartInterval == 1000
\* Interval of the discovery beacon (QCCTV.h).
QCCTV_DISCVRY_PKT_TIMING == 1000
\* "QCCTV_DISCOVERY_SERVICE"
DiscoveryToken ==
    <<81, 67, 67, 84, 86, 95, 68, 73, 83, 67, 79, 86, 69, 82, 89, 95,
      83, 69, 82, 86, 73, 67, 69>>

\* QTimer::singleShot (msec, ..., this, SLOT (update())): one more shot armed.
SingleShotUpdate(o, msec) ==
    [o EXCEPT !.updateTimer = msec, !.updateShots = @ + 1]

\* QTimer::singleShot (msec, ..., this, SLOT (broadcastInfo()))
SingleShotBroadcastInfo(o, msec) ==
    [o EXCEPT !.broadcastTimer = msec, !.broadcastShots = @ + 1]

\* A single shot fires: it is armed no more when its slot starts.
FiredUpdate(o) == [o EXCEPT !.updateShots = @ - 1]
FiredBroadcastInfo(o) == [o EXCEPT !.broadcastShots = @ - 1]

\* Mutant: the flashlight is not checked.
updateStatus_noLight(o) ==
    IF ~o.m_camera
    THEN addStatusFlag(o, QCCTV_CAMSTATUS_VIDEO_FAILURE)
    ELSE IF ~o.camActive
    THEN addStatusFlag(o, QCCTV_CAMSTATUS_VIDEO_FAILURE)
    ELSE removeStatusFlag(o, QCCTV_CAMSTATUS_VIDEO_FAILURE)

updateStatus(o) ==
    LET o1 == IF ~o.m_camera
              THEN addStatusFlag(o, QCCTV_CAMSTATUS_VIDEO_FAILURE)
              ELSE IF ~o.camActive
              THEN addStatusFlag(o, QCCTV_CAMSTATUS_VIDEO_FAILURE)
              ELSE removeStatusFlag(o, QCCTV_CAMSTATUS_VIDEO_FAILURE)
    IN  IF ~flashlightAvailable(o1)
        THEN addStatusFlag(o1, QCCTV_CAMSTATUS_LIGHT_FAILURE)
        ELSE removeStatusFlag(o1, QCCTV_CAMSTATUS_LIGHT_FAILURE)

\* The bytes of one frame: name length, name, fps, light status, camera
\* status, the compressed image if there is one, the end marker.
EncodeFrame(o) ==
    <<ToByte(Len(cameraName(o)))>>
    \o Utf8(cameraName(o))
    \o <<ToByte(fps(o)), ToByte(lightStatus(o)), ToByte(cameraStatus(o))>>
    \o (IF currentImage(o) # NullImage THEN ImageBytes(currentImage(o)) ELSE <<>>)
    \o <<QCCTV_EOD>>

\* Mutant: the isEmpty() test is gone.
generateDataStream_always(o) ==
    [o EXCEPT !.m_dataStream = @ \o EncodeFrame(o)]

generateDataStream(o) ==
    IF o.m_dataStream = <<>>
    THEN [o EXCEPT !.m_dataStream = @ \o EncodeFrame(o)]
    ELSE o

\* socket->write (m_dataStream): the bytes join the socket's write buffer.
SocketWrite(o, socket) ==
    [o EXCEPT !.written = Append(@, [sock |-> socket, data |-> o.m_dataStream]),
              !.sockbuf[socket] = IF o.m_dataStream = <<>> THEN @ ELSE @ + 1]

RECURSIVE WriteEach(_, _)
WriteEach(o, sockets) ==
    IF sockets = <<>> THEN o
    ELSE WriteEach(SocketWrite(o, Head(sockets)), Tail(sockets))

\* Mutant: the frame is written twice to every socket.
sendCameraData_twice(o) ==
    [WriteEach(WriteEach(o, o.m_sockets), o.m_sockets) EXCEPT !.m_dataStream = <<>>]

\* Mutant: the buffer is not cleared after the writes.
sendCameraData_keep(o) ==
    WriteEach(o, o.m_sockets)

sendCameraData(o) ==
    [WriteEach(o, o.m_sockets) EXCEPT !.m_dataStream = <<>>]

\* Mutant: the tick is re-armed with the interval of the constructor.
update_fixedInterval(o) ==
    LET o1 == sendCameraData(generateDataStream(updateStatus(o)))
    IN  SingleShotUpdate(o1, StartInterval)

\* Mutant: the frame is encoded before the status is refreshed.
update_encodeFirst(o) ==
    LET o1 == sendCameraData(updateStatus(generateDataStream(o)))
    IN  SingleShotUpdate(o1, 1000 \div fps(o1))

update(o) ==
    LET o1 == sendCameraData(generateDataStream(updateStatus(o)))
    IN  SingleShotUpdate(o1, 1000 \div fps(o1))

\* Mutant: the beacon is not armed again.
broadcastInfo_once(o) ==
    [o EXCEPT !.written = Append(@, [sock |-> BroadcastSocket,
                                     data |-> Utf8(DiscoveryToken)])]

broadcastInfo(o) ==
    SingleShotBroadcastInfo(
        [o EXCEPT !.written = Append(@, [sock |-> BroadcastSocket,
                                         data |-> Utf8(DiscoveryToken)])],
        QCCTV_DISCVRY_PKT_TIMING)

(* ------------------------- the connection set -------------------------- *)

\* deleteLater: the socket is gone, with its buffer and its connections.
DeleteLater(o, socket) ==
    [o EXCEPT !.sockbuf[socket] = 0,
              !.disconnectedSlots = @ \ {socket},
              !.readyReadSlots = @ \ {socket}]

\* Mutant: a disconnect empties the connection set.
onDisconnected_all(o, socket) ==
    IF socket # NullSocket
    THEN [DeleteLater(o, socket) EXCEPT !.m_sockets = <<>>]
    ELSE o

\* Mutant: the socket is deleted and stays in the list.
onDisconnected_keep(o, socket) ==
    IF socket # NullSocket
    THEN DeleteLater(o, socket)
    ELSE o

\* Mutant: the first socket of the list is removed, not the sender.
onDisconnected_first(o, socket) ==
    IF socket # NullSocket
    THEN [DeleteLater(o, socket) EXCEPT !.m_sockets = RemoveAt(@, 1)]
    ELSE o

onDisconnected(o, socket) ==
    IF socket # NullSocket
    THEN [DeleteLater(o, socket) EXCEPT
             !.m_sockets = RemoveAt(@, IndexOf(@, socket))]
    ELSE o

\* Mutant: one pending connection is accepted per call.
acceptConnection_one(o) ==
    IF o.pending # <<>>
    THEN [o EXCEPT !.m_sockets = Append(@, Head(o.pending)),
                   !.pending = Tail(@),
                   !.disconnectedSlots = @ \cup {Head(o.pending)},
                   !.readyReadSlots = @ \cup {Head(o.pending)}]
    ELSE o

RECURSIVE acceptConnection(_)
acceptConnection(o) ==
    IF o.pending # <<>>
    THEN acceptConnection(
             [o EXCEPT !.m_sockets = Append(@, Head(o.pending)),
                       !.pending = Tail(@),
                       !.disconnectedSlots = @ \cup {Head(o.pending)},
                       !.readyReadSlots = @ \cup {Head(o.pending)}])
    ELSE o

\* Mutant: only reads shorter than a command are dropped.
readCommandPacket_short(o, socket, data, charSigned) ==
    IF socket # NullSocket
    THEN IF Len(data) < 3 THEN o
         ELSE LET o1 == setFPS(o, CharToInt(data[1], charSigned))
                  o2 == setFlashlightStatus(o1, CharToInt(data[2], charSigned))
              IN  IF CharToInt(data[3], charSigned) = QCCTV_FORCE_FOCUS
                  THEN focusCamera(o2)
                  ELSE o2
    ELSE o

\* Mutant: the focus test is inverted.
readCommandPacket_focus(o, socket, data, charSigned) ==
    IF socket # NullSocket
    THEN IF Len(data) # 3 THEN o
         ELSE LET o1 == setFPS(o, CharToInt(data[1], charSigned))
                  o2 == setFlashlightStatus(o1, CharToInt(data[2], charSigned))
              IN  IF CharToInt(data[3], charSigned) # QCCTV_FORCE_FOCUS
                  THEN focusCamera(o2)
                  ELSE o2
    ELSE o

readCommandPacket(o, socket, data, charSigned) ==
    IF socket # NullSocket
    THEN IF Len(data) # 3 THEN o
         ELSE LET o1 == setFPS(o, CharToInt(data[1], charSigned))
                  o2 == setFlashlightStatus(o1, CharToInt(data[2], charSigned))
              IN  IF CharToInt(data[3], charSigned) = QCCTV_FORCE_FOCUS
                  THEN focusCamera(o2)
                  ELSE o2
    ELSE o

(* ----------------------------- construction ---------------------------- *)

\* The constructor, run on members that hold uFps and uLight.
constructor(uFps, uLight, defaultFps) ==
    LET raw == [m_fps |-> uFps, m_name |-> <<>>, m_cameraStatus |-> 0,
                m_flashlightStatus |-> uLight, m_camera |-> FALSE,
                m_image |-> NullImage, m_dataStream |-> <<>>, m_sockets |-> <<>>,
                camActive |-> FALSE, flashReady |-> FALSE, pending |-> <<>>,
                sockbuf |-> [s \in SocketIds |-> 0], disconnectedSlots |-> {},
                readyReadSlots |-> {}, updateTimer |-> 0, broadcastTimer |-> 0,
                updateShots |-> 0, broadcastShots |-> 0,
                emitted |-> <<>>, calls |-> <<>>, written |-> <<>>]
        o1 == setFPS(raw, defaultFps)
        o2 == setName(o1, UnknownCamera)
        o3 == setCameraStatus(o2, QCCTV_CAMSTATUS_DEFAULT)
        o4 == setFlashlightStatus(o3, QCCTV_FLASHLIGHT_OFF)
    IN  SingleShotBroadcastInfo(
            SingleShotUpdate([o4 EXCEPT !.m_image = DefaultImage], StartInterval),
            StartInterval)

Init ==
    \E uFps \in UninitInts, uLight \in UninitInts, d \in DefaultFpsCandidates :
        LET o == constructor(uFps, uLight, d) IN
        /\ m_fps = o.m_fps
        /\ m_name = o.m_name
        /\ m_cameraStatus = o.m_cameraStatus
        /\ m_flashlightStatus = o.m_flashlightStatus
        /\ m_camera = o.m_camera
        /\ m_image = o.m_image
        /\ m_dataStream = o.m_dataStream
        /\ m_sockets = o.m_sockets
        /\ camActive = o.camActive
        /\ flashReady = o.flashReady
        /\ pending = o.pending
        /\ sockbuf = o.sockbuf
        /\ disconnectedSlots = o.disconnectedSlots
        /\ readyReadSlots = o.readyReadSlots
        /\ updateTimer = o.updateTimer
        /\ broadcastTimer = o.broadcastTimer
        /\ updateShots = o.updateShots
        /\ broadcastShots = o.broadcastShots
        /\ emitted = o.emitted
        /\ calls = o.calls
        /\ written = o.written
        /\ lastOp = [op |-> "constructor"]
        /\ frameSeq = 0
        /\ sent = [s \in SocketIds |-> <<>>]

(* ------------------------------- actions ------------------------------- *)

Connected == SeqToSet(m_sockets)
FreeSockets == SocketIds \ (Connected \cup SeqToSet(pending))

\* An armed update() single shot fires.  (The test of the buffers only
\* bounds the model.)
Update ==
    /\ updateShots > 0
    /\ \A s \in Connected : sockbuf[s] < MaxPending
    /\ Commit(update(FiredUpdate(Self)), [op |-> "update"])

\* An armed broadcastInfo() single shot fires.
BroadcastInfo ==
    /\ broadcastShots > 0
    /\ Commit(broadcastInfo(FiredBroadcastInfo(Self)), [op |-> "broadcastInfo"])

\* A viewer connects: m_server queues the connection.
IncomingConnection ==
    /\ FreeSockets # {}
    /\ LET s == CHOOSE x \in FreeSockets : \A y \in FreeSockets : x <= y IN
       Commit([Self EXCEPT !.pending = Append(@, s)],
              [op |-> "incomingConnection", sock |-> s])

\* newConnection() is delivered.
AcceptConnection ==
    Commit(acceptConnection(Self), [op |-> "acceptConnection", n |-> Len(pending)])

\* disconnected() of a socket is delivered: the peer closed the connection, or
\* a write to it failed and Qt aborted it.
OnDisconnected ==
    \E s \in disconnectedSlots, cause \in {"closed", "writeError"} :
        Commit(onDisconnected(Self, s),
               [op |-> "onDisconnected", sock |-> s, cause |-> cause])

\* readyRead() of a socket is delivered and readAll() returns data.
ReadCommandPacket ==
    \E s \in readyReadSlots, data \in Reads, charSigned \in BOOLEAN :
        Commit(readCommandPacket(Self, s, data, charSigned),
               [op |-> "readCommandPacket", sock |-> s, data |-> data])

\* The same, for the reads of a running camera.
ReadLiveCommand ==
    \E s \in readyReadSlots, data \in LiveReads, charSigned \in BOOLEAN :
        Commit(readCommandPacket(Self, s, data, charSigned),
               [op |-> "readCommandPacket", sock |-> s, data |-> data])

\* The transport delivers one buffered frame to the viewer.
Drain ==
    \E s \in Connected :
        /\ sockbuf[s] > 0
        /\ Commit([Self EXCEPT !.sockbuf[s] = @ - 1], [op |-> "drain", sock |-> s])

SetCamera ==
    \E camera \in BOOLEAN :
        Commit(setCamera(Self, camera), [op |-> "setCamera", camera |-> camera])

\* The attached camera changes its status or its flash readiness.
HardwareChange ==
    \E a \in BOOLEAN, f \in BOOLEAN :
        /\ m_camera
        /\ <<a, f>> # <<camActive, flashReady>>
        /\ Commit([Self EXCEPT !.camActive = a, !.flashReady = f],
                  [op |-> "hardwareChange"])

SetFPS ==
    \E f \in FpsInputs : Commit(setFPS(Self, f), [op |-> "setFPS", fps |-> f])

SetName ==
    \E n \in NameInputs : Commit(setName(Self, n), [op |-> "setName", name |-> n])

ChangeImage ==
    \E i \in ImageInputs :
        Commit(changeImage(Self, i), [op |-> "changeImage", image |-> i])

TurnOnFlashlight ==
    Commit(turnOnFlashlight(Self), [op |-> "turnOnFlashlight"])

TurnOffFlashlight ==
    Commit(turnOffFlashlight(Self), [op |-> "turnOffFlashlight"])

FocusCamera ==
    Commit(focusCamera(Self), [op |-> "focusCamera"])

AddStatusFlag ==
    \E f \in StatusFlags :
        Commit(addStatusFlag(Self, f), [op |-> "addStatusFlag", flag |-> f])

RemoveStatusFlag ==
    \E f \in StatusFlags :
        Commit(removeStatusFlag(Self, f), [op |-> "removeStatusFlag", flag |-> f])

GenerateDataStream ==
    Commit(generateDataStream(Self), [op |-> "generateDataStream"])

SendCameraData ==
    Commit(sendCameraData(Self), [op |-> "sendCameraData"])

\* Every viewer has read what its socket was sent.
Drained(o) == [o EXCEPT !.sockbuf = [s \in SocketIds |-> 0]]

\* An armed update() single shot fires, and the viewers read what it wrote
\* before the next handler runs.
UpdateDrained ==
    /\ updateShots > 0
    /\ Commit(Drained(update(FiredUpdate(Self))), [op |-> "update"])

\* The same, recorded in the history of frames: the tick encodes frame
\* frameSeq + 1 when it finds the outbound buffer empty, and each of its
\* non-empty writes puts the frame of the buffer behind what the socket was
\* sent before.
UpdateRecorded ==
    /\ updateShots > 0
    /\ frameSeq < MaxFrames
    /\ LET o == update(FiredUpdate(Self))
           frame == IF m_dataStream = <<>> THEN frameSeq + 1 ELSE frameSeq
           writes(s) == {i \in DOMAIN o.written :
                            o.written[i].sock = s /\ o.written[i].data # <<>>}
       IN  /\ Run(Drained(o), [op |-> "update"])
           /\ frameSeq' = frame
           /\ sent' = [s \in SocketIds |->
                          sent[s] \o [i \in 1..Cardinality(writes(s)) |-> frame]]

(* ---------------------------- specifications --------------------------- *)

\* The streaming loop: ticks, beacons, viewers that come, drain and go, and
\* the camera hardware.
Next ==
    \/ Update
    \/ BroadcastInfo
    \/ IncomingConnection
    \/ AcceptConnection
    \/ OnDisconnected
    \/ Drain
    \/ SetCamera
    \/ HardwareChange

Spec == Init /\ [][Next]_vars

\* The control path: viewers' commands and the local calls that set the
\* frame rate, the light and the focus.
NextControl ==
    \/ IncomingConnection
    \/ AcceptConnection
    \/ ReadCommandPacket
    \/ SetFPS
    \/ TurnOnFlashlight
    \/ TurnOffFlashlight
    \/ FocusCamera
    \/ SetCamera
    \/ HardwareChange

SpecControl == Init /\ [][NextControl]_vars

\* The member functions of the codec and of the status flags, called one by
\* one in any order on a camera without viewers.
NextUnit ==
    \/ SetFPS
    \/ SetName
    \/ ChangeImage
    \/ TurnOnFlashlight
    \/ TurnOffFlashlight
    \/ AddStatusFlag
    \/ RemoveStatusFlag
    \/ GenerateDataStream
    \/ SendCameraData

SpecUnit == Init /\ [][NextUnit]_vars

\* The running camera: both timers, viewers that come, command and go, and
\* the camera hardware.
NextLive ==
    \/ UpdateDrained
    \/ BroadcastInfo
    \/ IncomingConnection
    \/ AcceptConnection
    \/ OnDisconnected
    \/ ReadLiveCommand
    \/ SetCamera
    \/ HardwareChange

\* Timer delivery: while a single shot is armed, the event loop can run its
\* slot as the next handler (UpdateDrained and BroadcastInfo ask for nothing
\* but an armed shot), and it does not put the timeout off for ever.
UpdateTimeout == updateShots > 0 /\ lastOp' = [op |-> "update"]
BroadcastInfoTimeout == broadcastShots > 0 /\ lastOp' = [op |-> "broadcastInfo"]

SpecLive ==
    /\ Init
    /\ [][NextLive]_vars
    /\ WF_lastOp(UpdateTimeout)
    /\ WF_lastOp(BroadcastInfoTimeout)

\* The frame rate: the ticks, the local setter and the viewers' commands.
NextRate ==
    \/ UpdateDrained
    \/ SetFPS
    \/ IncomingConnection
    \/ AcceptConnection
    \/ ReadLiveCommand

SpecRate == Init /\ [][NextRate]_vars

\* The ticks with the history of the frames they encode and write.
NextOrder ==
    \/ UpdateRecorded
    \/ IncomingConnection
    \/ AcceptConnection
    \/ OnDisconnected

SpecOrder == Init /\ [][NextOrder]_vars

(* ------------------------------- claims -------------------------------- *)

\* The frame the current fields encode to.
CurrentFrame == EncodeFrame(Self)

\* C1 (SpecUnit).  Backpressure: a generateDataStream() that finds the
\* outbound buffer non-empty leaves it exactly as it was, whatever the name,
\* fps, light status, status flags and image have become since it was filled.
C1_EncodeSkippedWhileUnsent ==
    [][(m_dataStream # <<>> /\ lastOp'.op = "generateDataStream")
           => m_dataStream' = m_dataStream]_vars

\* C1 witness: generateDataStream() has just run and the buffer still holds a
\* frame that the current fields no longer encode to.
C1_Witness ==
    /\ lastOp.op = "generateDataStream"
    /\ m_dataStream # <<>>
    /\ m_dataStream # CurrentFrame

\* C6 (SpecUnit).  Idempotent flags: from every flag set, for every flag f,
\* add(f); add(f) ends with the flag set of one add(f) and emits one
\* cameraStatusChanged if f was clear and none if it was set; remove(f);
\* remove(f) likewise, one signal if f was set and none if it was clear; no
\* other flag changes.  The last add or remove that ran did the same.
C6_IdempotentFlags ==
    /\ \A f \in StatusFlags :
        LET wasSet == BitAnd(m_cameraStatus, f) # 0
            a1 == addStatusFlag(Self, f)
            a2 == addStatusFlag(a1, f)
            r1 == removeStatusFlag(Self, f)
            r2 == removeStatusFlag(r1, f)
        IN  /\ BitAnd(a1.m_cameraStatus, f) = f
            /\ a2.m_cameraStatus = a1.m_cameraStatus
            /\ a2.emitted = (IF wasSet THEN <<>> ELSE <<"cameraStatusChanged">>)
            /\ BitAnd(r1.m_cameraStatus, f) = 0
            /\ r2.m_cameraStatus = r1.m_cameraStatus
            /\ r2.emitted = (IF wasSet THEN <<"cameraStatusChanged">> ELSE <<>>)
            /\ \A g \in StatusFlags \ {f} :
                /\ BitAnd(a2.m_cameraStatus, g) = BitAnd(m_cameraStatus, g)
                /\ BitAnd(r2.m_cameraStatus, g) = BitAnd(m_cameraStatus, g)
    /\ lastOp.op = "addStatusFlag" =>
        /\ BitAnd(m_cameraStatus, lastOp.flag) = lastOp.flag
        /\ emitted \in {<<>>, <<"cameraStatusChanged">>}
    /\ lastOp.op = "removeStatusFlag" =>
        /\ BitAnd(m_cameraStatus, lastOp.flag) = 0
        /\ emitted \in {<<>>, <<"cameraStatusChanged">>}

\* C6 witness: an add of a flag that was already set has just run (it emitted
\* nothing) while the other flag is set too.
C6_Witness ==
    /\ lastOp.op = "addStatusFlag"
    /\ emitted = <<>>
    /\ m_cameraStatus = BitOr(QCCTV_CAMSTATUS_VIDEO_FAILURE, QCCTV_CAMSTATUS_LIGHT_FAILURE)

\* What a received byte can be as an int, over both signednesses of char.
ByteAsInt(b) == {CharToInt(b, charSigned) : charSigned \in BOOLEAN}

\* The boundary-respecting value nearest to v.
NearestValidFps(v) ==
    CHOOSE b \in QCCTV_MIN_FPS..QCCTV_MAX_FPS :
        \A c \in QCCTV_MIN_FPS..QCCTV_MAX_FPS :
            (IF b > v THEN b - v ELSE v - b) <= (IF c > v THEN c - v ELSE v - c)

FocusInvoked(log) == "focusCamera" \in SeqToSet(log)

\* C3 (SpecControl).  A read whose length is not 3 is dropped whole: every
\* field, the outbound buffer, the connection set and its signal connections
\* stay as they were, nothing is emitted, written or called (no focus).
C3_WrongLengthDropped ==
    [][(lastOp'.op = "readCommandPacket" /\ Len(lastOp'.data) # 3)
           => /\ UNCHANGED <<m_fps, m_name, m_cameraStatus, m_flashlightStatus,
                             m_camera, m_image, m_dataStream, m_sockets,
                             camActive, flashReady, pending, sockbuf,
                             disconnectedSlots, readyReadSlots, updateTimer,
                             broadcastTimer>>
              /\ emitted' = <<>>
              /\ calls' = <<>>
              /\ written' = <<>>]_vars

\* C3 witness: a read of two coalesced commands has just been handled, its
\* sender is still connected, and the light it asks for is not the stored one.
C3_Witness ==
    /\ lastOp.op = "readCommandPacket"
    /\ Len(lastOp.data) >= 6
    /\ lastOp.sock \in Connected
    /\ lastOp.sock \in readyReadSlots
    /\ m_flashlightStatus # lastOp.data[2]

\* C4 as stated (SpecControl).  A 3-byte command whose third byte is not the
\* force-focus value sets fps and light status as requested and focusCamera
\* is not called while it is handled, in every camera state.
C4_NeverFocuses ==
    (lastOp.op = "readCommandPacket" /\ Len(lastOp.data) = 3
        /\ lastOp.data[3] # QCCTV_FORCE_FOCUS)
    => /\ m_fps \in {QCCTV_GET_VALID_FPS(v) : v \in ByteAsInt(lastOp.data[1])}
       /\ m_flashlightStatus \in ByteAsInt(lastOp.data[2])
       /\ ~FocusInvoked(calls)

\* C4 as amended (SpecControl).  Such a command sets fps to the requested
\* value (clamped) and the light status to the requested value; focusCamera
\* is called while it is handled exactly when it switches the light on (the
\* stored status was not on) with a camera attached and its flashlight ready.
C4_FocusOnlyWithLightOn ==
    [][(lastOp'.op = "readCommandPacket" /\ Len(lastOp'.data) = 3
            /\ lastOp'.data[3] # QCCTV_FORCE_FOCUS)
           => /\ m_fps' \in {QCCTV_GET_VALID_FPS(v) : v \in ByteAsInt(lastOp'.data[1])}
              /\ m_flashlightStatus' \in ByteAsInt(lastOp'.data[2])
              /\ FocusInvoked(calls') <=>
                    /\ m_flashlightStatus # QCCTV_FLASHLIGHT_ON
                    /\ lastOp'.data[2] = QCCTV_FLASHLIGHT_ON
                    /\ m_camera
                    /\ flashReady]_vars

\* C4 witness: [30, 1, 0] has just been handled with a camera attached and
\* its flashlight ready, the light was already on, and focus was not invoked.
C4_Witness ==
    /\ lastOp.op = "readCommandPacket"
    /\ lastOp.data = <<30, 1, 0>>
    /\ m_camera
    /\ flashReady
    /\ m_fps = 30
    /\ m_flashlightStatus = QCCTV_FLASHLIGHT_ON
    /\ calls = <<>>

\* C5 (SpecControl).  The stored fps is always inside the valid range, so
\* never 0; setFPS and the first byte of a command store the value of the
\* range nearest to the request.
C5_FpsClamped ==
    /\ m_fps \in QCCTV_MIN_FPS..QCCTV_MAX_FPS
    /\ m_fps # 0
    /\ lastOp.op = "setFPS" => m_fps = NearestValidFps(lastOp.fps)
    /\ (lastOp.op = "readCommandPacket" /\ Len(lastOp.data) = 3)
       => m_fps \in {NearestValidFps(v) : v \in ByteAsInt(lastOp.data[1])}

\* C5 witness: setFPS (100) has just stored the upper boundary.
C5_Witness ==
    /\ lastOp.op = "setFPS"
    /\ lastOp.fps > QCCTV_MAX_FPS
    /\ m_fps = QCCTV_MAX_FPS

\* C7 as stated (SpecControl).  While the light hardware is unavailable, a
\* request to change the light status leaves the stored light status as it
\* was.
C7_LightRequestRejected ==
    [][(lastOp'.op \in {"turnOnFlashlight", "turnOffFlashlight", "readCommandPacket"}
            /\ ~flashlightAvailable(Self))
           => m_flashlightStatus' = m_flashlightStatus]_vars

\* The writes of the last handler that went to socket s.
WritesTo(log, s) == {i \in DOMAIN log : log[i].sock = s}

\* The status flags the health check computes from the hardware as it is.
HealthFlags ==
    (IF m_camera /\ camActive THEN 0 ELSE QCCTV_CAMSTATUS_VIDEO_FAILURE)
    + (IF m_camera /\ flashReady THEN 0 ELSE QCCTV_CAMSTATUS_LIGHT_FAILURE)

\* The status-flags byte of a frame of the current camera name.
StatusByteOf(frame) == frame[1 + Len(Utf8(m_name)) + 3]

\* C2 as stated (Spec).  No connection ever holds more than one frame that
\* was written to it and that its viewer has not drained.
C2_AtMostOneUndrained ==
    \A s \in Connected : sockbuf[s] <= 1

\* C8 (Spec).  When a connection is lost to a write error, its socket and
\* only its socket leaves the connection set, the order of the others, the
\* outbound buffer and both armed timers stay as they were; and every tick
\* writes one non-empty frame to every connection in the set and re-arms.
C8_WriteErrorIsolated ==
    [][/\ (lastOp'.op = "onDisconnected" /\ lastOp'.cause = "writeError")
            => /\ m_sockets' = SelectSeq(m_sockets, LAMBDA x : x # lastOp'.sock)
               /\ lastOp'.sock \notin SeqToSet(m_sockets')
               /\ \A s \in SeqToSet(m_sockets') : sockbuf'[s] = sockbuf[s]
               /\ UNCHANGED <<m_dataStream, updateTimer, broadcastTimer>>
       /\ lastOp'.op = "update"
            => /\ m_sockets' = m_sockets
               /\ \A s \in SeqToSet(m_sockets') :
                    /\ Cardinality(WritesTo(written', s)) = 1
                    /\ \A i \in WritesTo(written', s) : written'[i].data # <<>>
                    /\ sockbuf'[s] = sockbuf[s] + 1
               /\ updateTimer' > 0]_vars

\* C8 witness: a write error has just removed one viewer and another viewer,
\* with a frame in its buffer, is still in the connection set.
C8_Witness ==
    /\ lastOp.op = "onDisconnected"
    /\ lastOp.cause = "writeError"
    /\ \E s \in Connected : s < lastOp.sock /\ sockbuf[s] > 0

\* C9 (Spec).  A broadcast writes the current frame once to every socket of
\* the connection set, in the set's order, and to nothing else, and leaves
\* the outbound buffer empty, so that every tick encodes a new frame.
C9_FanOutAndClear ==
    /\ m_dataStream = <<>>
    /\ lastOp.op = "update" =>
        /\ Len(written) = Len(m_sockets)
        /\ \A i \in DOMAIN written :
            /\ written[i].sock = m_sockets[i]
            /\ written[i].data = CurrentFrame

\* C9 witness: a tick has just written the frame to two connections.
C9_Witness ==
    /\ lastOp.op = "update"
    /\ Len(m_sockets) = 2
    /\ Len(written) = 2

\* C10 (Spec).  A tick runs the health check, then encodes, then broadcasts:
\* after it the status flags are those of the hardware, and the status byte
\* of every frame it wrote is that same status.
C10_StatusOfTheTick ==
    lastOp.op = "update" =>
        /\ m_cameraStatus = HealthFlags
        /\ \A i \in DOMAIN written :
            StatusByteOf(written[i].data) = ToByte(HealthFlags)

\* C10 witness: a tick has just written a frame whose status says the video
\* works and the light does not (the status before that camera was attached
\* said both fail).
C10_Witness ==
    /\ lastOp.op = "update"
    /\ written # <<>>
    /\ m_cameraStatus = QCCTV_CAMSTATUS_LIGHT_FAILURE

HasFlag(status, flag) == BitAnd(status, flag) # 0

\* C11 (SpecLive).  After the health check of every tick the video-failure
\* flag is set iff no camera is attached or the camera is not active, and the
\* light-failure flag is set iff the flashlight is not available; a command
\* of a viewer, a connection that comes in, is accepted or is lost leaves the
\* flags as the last health check set them.
C11_FlagsMirrorLastCheck ==
    [][/\ lastOp'.op = "update"
            => /\ HasFlag(m_cameraStatus', QCCTV_CAMSTATUS_VIDEO_FAILURE)
                    <=> (~m_camera \/ ~camActive)
               /\ HasFlag(m_cameraStatus', QCCTV_CAMSTATUS_LIGHT_FAILURE)
                    <=> ~flashlightAvailable(Self)
       /\ lastOp'.op \in {"readCommandPacket", "incomingConnection",
                          "acceptConnection", "onDisconnected"}
            => m_cameraStatus' = m_cameraStatus]_vars

\* C11 witness: a well-formed command has just been handled while the flags
\* still say what the last tick found (light failure), although the
\* flashlight has become ready since.
C11_Witness ==
    /\ lastOp.op = "readCommandPacket"
    /\ Len(lastOp.data) = 3
    /\ m_cameraStatus = QCCTV_CAMSTATUS_LIGHT_FAILURE
    /\ HealthFlags = 0

NoDuplicates(s) == \A i, j \in DOMAIN s : (s[i] = s[j]) => (i = j)
Without(s, x) == SelectSeq(s, LAMBDA y : y # x)

\* C12 (Spec).  The connection set holds each connection at most once and
\* holds exactly the accepted connections whose disconnected() has not been
\* handled: only an accept adds to it, and adds what was pending; only
\* onDisconnected (h) takes from it, and takes h alone; and onDisconnected of
\* a handle that is not in the set would leave the set as it is.
C12_ConnectionSetMembership ==
    /\ [](/\ NoDuplicates(m_sockets)
          /\ Connected = disconnectedSlots
          /\ \A h \in SocketIds \ Connected :
                onDisconnected(Self, h).m_sockets = m_sockets)
    /\ [][/\ lastOp'.op = "acceptConnection"
                => SeqToSet(m_sockets') = Connected \cup SeqToSet(pending)
          /\ lastOp'.op = "onDisconnected"
                => /\ lastOp'.sock \in Connected
                   /\ m_sockets' = Without(m_sockets, lastOp'.sock)
          /\ lastOp'.op \notin {"acceptConnection", "onDisconnected"}
                => m_sockets' = m_sockets]_vars

\* C12 witness: an accept has just put a new connection behind an older one
\* whose handle is higher: the set has lost a connection before.
C12_Witness ==
    /\ lastOp.op = "acceptConnection"
    /\ lastOp.n = 1
    /\ m_sockets = <<2, 1>>

\* C13 (Spec).  One acceptConnection() that finds n >= 0 connections pending
\* puts all n behind the connection set in the order they were pending,
\* connects disconnected() and readyRead() of each, and leaves none pending.
C13_AcceptDrainsAll ==
    [][lastOp'.op = "acceptConnection"
          => /\ lastOp'.n = Len(pending)
             /\ m_sockets' = m_sockets \o pending
             /\ pending' = <<>>
             /\ disconnectedSlots' = disconnectedSlots \cup SeqToSet(pending)
             /\ readyReadSlots' = readyReadSlots \cup SeqToSet(pending)]_vars

\* C13 witness: one accept has just taken two pending connections.
C13_Witness ==
    /\ lastOp.op = "acceptConnection"
    /\ lastOp.n = 2
    /\ m_sockets = <<1, 2>>
    /\ readyReadSlots = {1, 2}
    /\ pending = <<>>

\* C14 (Spec).  A disconnect of one viewer, whatever its cause, takes that
\* viewer out of the connection set and writes nothing; the other connections
\* with their buffers and signal connections, the outbound buffer, fps, light
\* status, status flags and both armed timers stay as they were; and every
\* tick writes a frame to each connection that is in the set, and to no other.
C14_CancellationIsLocal ==
    [][/\ lastOp'.op = "onDisconnected"
            => /\ m_sockets' = Without(m_sockets, lastOp'.sock)
               /\ \A s \in SeqToSet(m_sockets') :
                    /\ s \in disconnectedSlots'
                    /\ s \in readyReadSlots'
                    /\ sockbuf'[s] = sockbuf[s]
               /\ UNCHANGED <<m_dataStream, m_fps, m_flashlightStatus,
                              m_cameraStatus, updateTimer, broadcastTimer,
                              updateShots, broadcastShots>>
               /\ written' = <<>>
       /\ lastOp'.op = "update"
            => /\ \A s \in Connected :
                    \E i \in DOMAIN written' :
                        written'[i].sock = s /\ written'[i].data # <<>>
               /\ \A i \in DOMAIN written' : written'[i].sock \in Connected]_vars

\* C14 witness: the viewer that connected first has just closed, and the one
\* that connected after it is still in the set with a frame in its buffer.
C14_Witness ==
    /\ lastOp.op = "onDisconnected"
    /\ lastOp.cause = "closed"
    /\ lastOp.sock = 1
    /\ m_sockets = <<2>>
    /\ sockbuf[2] > 0

StrictlyIncreasing(s) == \A i, j \in DOMAIN s : (i < j) => (s[i] < s[j])

\* C15 (SpecOrder).  With the frames numbered in the order they are encoded,
\* the frames written to a socket handle, over all the connections that had
\* it, are encoded frames in strictly increasing order: none twice, none
\* behind a frame that was encoded after it.
C15_FramesInOrder ==
    \A s \in SocketIds :
        /\ StrictlyIncreasing(sent[s])
        /\ \A i \in DOMAIN sent[s] : sent[s][i] \in 1..frameSeq

\* C15 witness: one viewer was sent frames 1 and 2, a viewer that came later
\* frame 2 alone.
C15_Witness ==
    /\ sent[1] = <<1, 2>>
    /\ sent[2] = <<2>>

\* C16 (SpecRate).  A tick arms one single shot whose interval is 1000 / fps
\* (integer division) of the fps stored when the tick ends; a setFPS() or a
\* command of a viewer between two ticks leaves the armed shot and its
\* interval as they are, so the new fps counts from the next re-arm on.
C16_FpsAtNextRearm ==
    [][/\ lastOp'.op = "update"
            => /\ m_fps' = m_fps
               /\ updateTimer' = 1000 \div m_fps'
               /\ updateShots' = 1
       /\ lastOp'.op \in {"setFPS", "readCommandPacket"}
            => UNCHANGED <<updateTimer, updateShots>>]_vars

\* C16 witness: setFPS has just stored 60 while the shot armed by the last
\* tick, at 30 frames per second, is still the one that is armed.
C16_Witness ==
    /\ lastOp.op = "setFPS"
    /\ m_fps = QCCTV_MAX_FPS
    /\ updateTimer = 1000 \div 30
    /\ updateShots = 1

\* C17 (SpecLive).  Between handlers exactly one update() shot and one
\* broadcastInfo() shot are armed, whatever connections, lost connections,
\* commands and hardware there are; so, the timeouts being delivered, steps
\* that run update() and steps that run broadcastInfo() both happen again and
\* again; and a beacon tick sends one datagram, the bytes of
\* "QCCTV_DISCOVERY_SERVICE", and nothing else.
C17_TicksUnconditional ==
    /\ [](updateShots = 1 /\ broadcastShots = 1)
    /\ []<><<lastOp'.op = "update">>_lastOp
    /\ []<><<lastOp'.op = "broadcastInfo">>_lastOp
    /\ [](lastOp.op = "broadcastInfo"
            => written = <<[sock |-> BroadcastSocket, data |-> DiscoveryToken]>>)

\* C17 witness: a tick has just run and re-armed with a viewer connected, no
\* camera attached, and a light status that only a command of bytes outside
\* every range can have stored.
C17_Witness ==
    /\ lastOp.op = "update"
    /\ updateShots = 1
    /\ m_sockets # <<>>
    /\ ~m_camera
    /\ m_flashlightStatus \notin {QCCTV_FLASHLIGHT_OFF, QCCTV_FLASHLIGHT_ON}

\* The header as a viewer reads it: one byte of name length, that many name
\* bytes, then one byte each of fps, light status and status flags.
DecodeHeader(packet) ==
    LET n == packet[1] IN
    [name |-> SubSeq(packet, 2, 1 + n),
     fps |-> packet[2 + n],
     light |-> packet[3 + n],
     status |-> packet[4 + n]]

\* C18 as stated (SpecUnit).  When generateDataStream() has encoded the
\* current fields, the first byte of the packet is the number of name bytes
\* behind it, and reading the header back gives the name (its UTF-8 bytes),
\* the fps, the light status and the status flags that were encoded.
C18_HeaderRoundTrip ==
    (lastOp.op = "generateDataStream" /\ m_dataStream = CurrentFrame)
    => /\ m_dataStream[1] = Len(Utf8(m_name))
       /\ DecodeHeader(m_dataStream) =
            [name |-> Utf8(m_name), fps |-> m_fps,
             light |-> m_flashlightStatus, status |-> m_cameraStatus]

Signalled(log, signal) == signal \in SeqToSet(log)

\* C19 as stated (SpecUnit).  Each mutator emits its change signal exactly
\* when the value it stores differs from the value stored before the call:
\* setFPS, setName, addStatusFlag, removeStatusFlag and setFlashlightStatus
\* (through turnOn and turnOff) in the calls that are made, setCameraStatus
\* for every status it could be given.
C19_SignalIffChanged ==
    [][/\ lastOp'.op = "setFPS"
            => (Signalled(emitted', "fpsChanged") <=> m_fps' # m_fps)
       /\ lastOp'.op = "setName"
            => (Signalled(emitted', "cameraNameChanged") <=> m_name' # m_name)
       /\ lastOp'.op \in {"addStatusFlag", "removeStatusFlag"}
            => (Signalled(emitted', "cameraStatusChanged")
                    <=> m_cameraStatus' # m_cameraStatus)
       /\ lastOp'.op \in {"turnOnFlashlight", "turnOffFlashlight"}
            => (Signalled(emitted', "lightStatusChanged")
                    <=> m_flashlightStatus' # m_flashlightStatus)
       /\ \A status \in {0} \cup StatusFlags :
            Signalled(setCameraStatus(Self, status).emitted, "cameraStatusChanged")
                <=> setCameraStatus(Self, status).m_cameraStatus # m_cameraStatus]_vars

\* The light-status byte of a frame of the current camera name.
LightByteOf(frame) == frame[1 + Len(Utf8(m_name)) + 2]

\* C20 as stated (SpecControl).  Whatever 3-byte commands and turnOn and
\* turnOff calls there have been, the stored light status is off or on, and
\* so is the light-status byte of the frame the fields encode to.
C20_LightStatusEnumerated ==
    /\ m_flashlightStatus \in {QCCTV_FLASHLIGHT_OFF, QCCTV_FLASHLIGHT_ON}
    /\ LightByteOf(CurrentFrame) \in {QCCTV_FLASHLIGHT_OFF, QCCTV_FLASHLIGHT_ON}

=============================================================================
